---- MODULE Spec2Model ----
(***************************************************************************)
(* A model of src/main.py (tpot-k8s): the conversion of docker-compose     *)
(* services into Helm template fragments.                                  *)
(*                                                                         *)
(* Strings that the program parses (mount strings, service names) are      *)
(* sequences of one-character strings, so that split, removeprefix,        *)
(* slugify and int are computed the way the code computes them.            *)
(* Python dicts are functions whose DOMAIN is the set of keys present.     *)
(* An uncaught Python exception is a result [ok |-> FALSE, err |-> kind].  *)
(***************************************************************************)
EXTENDS Integers, Sequences, FiniteSets, TLC

VARIABLES
    pc,         \* position of main() in the current run
    run,        \* 1 for the first run, 2 for the re-run on the same tree
    args,       \* the parsed command line: [exclude, mount]
    tree,       \* the cloned source tree: the entries os.scandir yields
    di,         \* index of the directory entry the scan loop is at (0: not scanning)
    si,         \* index of the service the service loop is at
    services,   \* contents.get('services', {}) of the compose file being converted
    files,      \* destination directory: name of each existing output file -> its lines
    gitignore,  \* lines of <dest>/.gitignore
    created,    \* output units opened for writing by the current run
    status,     \* exit status of the current run once it ended
    err,        \* the exception that ended the current run ("none" if none)
    snap,       \* destination contents at the end of the first run
    cvIn,       \* input of a direct call of convert_service / of the bind-mount parse
    cvOut       \* its result

vars == <<pc, run, args, tree, di, si, services, files, gitignore, created,
          status, err, snap, cvIn, cvOut>>

runVars == <<pc, run, args, tree, di, si, services, files, gitignore, created,
             status, err, snap>>

-----------------------------------------------------------------------------
(* Bounds *)

MaxDirs == 2        \* entries of the scanned search directory
MaxMounts == 2      \* bind mounts, and tmpfs mounts, of a directly converted service
MaxLen == 6         \* characters of a bind-mount string given to the parse

-----------------------------------------------------------------------------
(* Characters and Python string operations *)

Lowers == {"a", "b", "c", "d", "e", "g", "i", "l", "o", "r", "t", "u", "w", "x", "y"}
Uppers == {"A", "D", "W"}
Digits == {"0", "1", "2"}

ToLower(c) ==
    CASE c = "A" -> "a"
      [] c = "D" -> "d"
      [] c = "W" -> "w"
      [] OTHER -> c

IsAlnum(c) == c \in Lowers \cup Uppers \cup Digits

\* str.find: the index of the first occurrence of character c, 0 if none
IndexOf(s, c) ==
    IF \E i \in 1..Len(s) : s[i] = c
    THEN CHOOSE i \in 1..Len(s) : s[i] = c /\ \A j \in 1..(i-1) : s[j] # c
    ELSE 0

\* str.split(c): all the pieces between occurrences of c
RECURSIVE split(_, _)
split(s, c) ==
    LET i == IndexOf(s, c) IN
    IF i = 0 THEN <<s>>
    ELSE <<SubSeq(s, 1, i-1)>> \o split(SubSeq(s, i+1, Len(s)), c)

\* str.split(c, 1): at most one split, at the first occurrence of c
split1(s, c) ==
    LET i == IndexOf(s, c) IN
    IF i = 0 THEN <<s>>
    ELSE <<SubSeq(s, 1, i-1), SubSeq(s, i+1, Len(s))>>

\* str.removeprefix(c) for a one-character prefix
removeprefix(s, c) ==
    IF Len(s) >= 1 /\ s[1] = c THEN Tail(s) ELSE s

RECURSIVE Collapse(_)
Collapse(s) ==
    IF Len(s) <= 1 THEN s
    ELSE IF s[1] = "-" /\ s[2] = "-" THEN Collapse(Tail(s))
    ELSE <<s[1]>> \o Collapse(Tail(s))

RECURSIVE LStrip(_)
LStrip(s) == IF Len(s) >= 1 /\ s[1] = "-" THEN LStrip(Tail(s)) ELSE s

RECURSIVE RStrip(_)
RStrip(s) ==
    IF Len(s) >= 1 /\ s[Len(s)] = "-" THEN RStrip(SubSeq(s, 1, Len(s)-1)) ELSE s

\* slugify (python-slugify defaults): lowercase, every run of characters that
\* are not alphanumeric becomes one '-', leading and trailing '-' are stripped
slugify(s) ==
    RStrip(LStrip(Collapse(
        [i \in 1..Len(s) |-> IF IsAlnum(s[i]) THEN ToLower(s[i]) ELSE "-"])))

DigitVal(c) == CASE c = "0" -> 0 [] c = "1" -> 1 [] c = "2" -> 2 [] OTHER -> 0

RECURSIVE DecVal(_)
DecVal(s) == IF s = <<>> THEN 0 ELSE 10 * DecVal(SubSeq(s, 1, Len(s)-1)) + DigitVal(s[Len(s)])

\* int(s): a ValueError unless s is a non-empty run of digits
int(s) ==
    IF s # <<>> /\ \A i \in 1..Len(s) : s[i] \in Digits
    THEN [ok |-> TRUE, val |-> DecVal(s)]
    ELSE [ok |-> FALSE, err |-> "ValueError"]

-----------------------------------------------------------------------------
(* convert_service *)

pvc_name_template == "{{ .Release.Name }}-"

\* pvc_name_template.format(name=pvc_name)
FormatClaim(pvc_name) == <<pvc_name_template, pvc_name>>

\* lines 45-46: host_path, guest_path = vol_mount.split(":")
\*              pvc_name, pvc_path = host_path.removeprefix("/").split("/", 1)
parseBindMount(vol_mount) ==
    LET parts == split(vol_mount, ":") IN
    IF Len(parts) # 2 THEN [ok |-> FALSE, err |-> "ValueError"]
    ELSE LET host_path == parts[1]
             guest_path == parts[2]
             segs == split1(removeprefix(host_path, "/"), "/")
         IN IF Len(segs) # 2 THEN [ok |-> FALSE, err |-> "ValueError"]
            ELSE [ok |-> TRUE, pvc_name |-> segs[1], pvc_path |-> segs[2],
                  guest_path |-> guest_path]

\* volumes[vol_name] = v on an insertion-ordered dict kept as a sequence
DictSet(volumes, vol_name, v) ==
    IF \E i \in 1..Len(volumes) : volumes[i].name = vol_name
    THEN [i \in 1..Len(volumes) |->
             IF volumes[i].name = vol_name THEN v ELSE volumes[i]]
    ELSE Append(volumes, v)

\* lines 63-81: the PersistentVolumeClaim appended to extras
PvcExtra(pvc_name) ==
    [apiVersion |-> "v1", kind |-> "PersistentVolumeClaim",
     name |-> FormatClaim(pvc_name), namespace |-> "{{ .Release.Namespace }}",
     accessModes |-> <<"ReadWriteOnce">>, storage |-> "100Mi"]

\* the ignore list not consulted: a claim for every bind mount
NeedsExtra_Always(vol_name, ignore_volumes) == TRUE

\* line 62: if vol_name not in ignore_volumes
NeedsExtra(vol_name, ignore_volumes) == vol_name \notin ignore_volumes

\* lines 42-81: one iteration of the bind-mount loop on the state
\* st = [ok, container, volumes, extras]
BindStep(st, vol_mount, ignore_volumes) ==
    LET p == parseBindMount(vol_mount) IN
    IF ~p.ok THEN [ok |-> FALSE, err |-> p.err]
    ELSE LET pvc_name == slugify(p.pvc_name)
             vol_name == pvc_name
             mounts == IF "volumeMounts" \in DOMAIN st.container
                       THEN st.container.volumeMounts ELSE <<>>
             mount == [name |-> vol_name, subPath |-> p.pvc_path,
                       mountPath |-> p.guest_path]
         IN [ok |-> TRUE,
             container |-> ("volumeMounts" :> Append(mounts, mount)) @@ st.container,
             volumes |-> DictSet(st.volumes, vol_name,
                                 [name |-> vol_name, kind |-> "persistentVolumeClaim",
                                  claimName |-> FormatClaim(pvc_name)]),
             extras |-> IF NeedsExtra(vol_name, ignore_volumes)
                        THEN Append(st.extras, PvcExtra(pvc_name))
                        ELSE st.extras]

\* line 89: dict(map(lambda a: a.split("="), attrs.split(",")))
\* a ValueError unless every token splits into exactly two pieces; a key
\* given twice keeps its last value
ParseAttrs(attrs) ==
    LET toks == split(attrs, ",")
        kv == [i \in 1..Len(toks) |-> split(toks[i], "=")]
    IN IF \E i \in 1..Len(kv) : Len(kv[i]) # 2
       THEN [ok |-> FALSE, err |-> "ValueError"]
       ELSE [ok |-> TRUE,
             keys |-> {kv[i][1] : i \in 1..Len(kv)},
             get |-> [k \in {kv[i][1] : i \in 1..Len(kv)} |->
                        LET last == CHOOSE i \in 1..Len(kv) :
                                      /\ kv[i][1] = k
                                      /\ \A j \in (i+1)..Len(kv) : kv[j][1] # k
                        IN kv[last][2]]]

UID == <<"u", "i", "d">>
GID == <<"g", "i", "d">>

\* lines 98-99: if securityContext: container['securityContext'] = securityContext
SetSecurityContext(container, securityContext) ==
    IF DOMAIN securityContext # {}
    THEN ("securityContext" :> securityContext) @@ container
    ELSE container

\* lines 85-110: one iteration of the tmpfs loop
TmpfsStep(st, name, tmpfs_mount) ==
    LET parts == split(tmpfs_mount, ":") IN
    IF Len(parts) # 2 THEN [ok |-> FALSE, err |-> "ValueError"]
    ELSE LET guest_path == parts[1]
             attrs == ParseAttrs(parts[2])
         IN IF ~attrs.ok THEN [ok |-> FALSE, err |-> attrs.err]
            ELSE LET vol_name == slugify(name \o <<"-">> \o removeprefix(guest_path, "/"))
                     uid == IF UID \in attrs.keys THEN int(attrs.get[UID])
                            ELSE [ok |-> TRUE, val |-> 0]
                     gid == IF GID \in attrs.keys THEN int(attrs.get[GID])
                            ELSE [ok |-> TRUE, val |-> 0]
                     sc1 == IF UID \in attrs.keys
                            THEN [k \in {"runAsUser"} |-> uid.val]
                            ELSE [k \in {} |-> 0]
                     securityContext ==
                            IF GID \in attrs.keys
                            THEN [k \in {"runAsGroup", "fsGroup"} |-> gid.val] @@ sc1
                            ELSE sc1
                     mounts == IF "volumeMounts" \in DOMAIN st.container
                               THEN st.container.volumeMounts ELSE <<>>
                     mount == [name |-> vol_name, mountPath |-> guest_path]
                 IN IF ~uid.ok \/ ~gid.ok THEN [ok |-> FALSE, err |-> "ValueError"]
                    ELSE [ok |-> TRUE,
                          container |->
                              ("volumeMounts" :> Append(mounts, mount)) @@
                              SetSecurityContext(st.container, securityContext),
                          volumes |-> DictSet(st.volumes, vol_name,
                                              [name |-> vol_name, kind |-> "emptyDir",
                                               medium |-> "Memory"]),
                          extras |-> st.extras]

RECURSIVE BindLoop(_, _, _)
BindLoop(st, mounts, ignore_volumes) ==
    IF ~st.ok \/ mounts = <<>> THEN st
    ELSE BindLoop(BindStep(st, Head(mounts), ignore_volumes), Tail(mounts), ignore_volumes)

RECURSIVE TmpfsLoop(_, _, _)
TmpfsLoop(st, name, mounts) ==
    IF ~st.ok \/ mounts = <<>> THEN st
    ELSE TmpfsLoop(TmpfsStep(st, name, Head(mounts)), name, Tail(mounts))

\* service.get(key, [])
GetList(service, key) == IF key \in DOMAIN service THEN service[key] ELSE <<>>

\* lines 30-112
convert_service(name, service, ignore_volumes) ==
    IF "image" \notin DOMAIN service THEN [ok |-> FALSE, err |-> "KeyError"]
    ELSE LET c0 == [name |-> name, image |-> service.image]
             c1 == IF "environment" \in DOMAIN service
                   THEN ("env" :> service.environment) @@ c0 ELSE c0
             st0 == [ok |-> TRUE, container |-> c1, volumes |-> <<>>, extras |-> <<>>]
             st1 == BindLoop(st0, GetList(service, "volumes"), ignore_volumes)
         IN TmpfsLoop(st1, name, GetList(service, "tmpfs"))


-----------------------------------------------------------------------------
(* Direct calls: the bind-mount parse on every short string, and             *)
(* convert_service on services built from a catalogue of mount strings.      *)

ParseAlphabet == {"/", ":", "a", "b"}

\* every string of at most MaxLen characters over ParseAlphabet
ParseInputs == UNION {[1..n -> ParseAlphabet] : n \in 0..MaxLen}

B_ab == <<"/", "a", "/", "b", ":", "/", "c">>          \* "/a/b:/c"
B_ad == <<"/", "a", "/", "d", ":", "/", "e">>          \* "/a/d:/e", the same resource name as B_ab
B_data == <<"/", "d", "a", "t", "a", "/", "x", ":", "/", "y">>      \* "/data/x:/y"
B_Data == <<"/", "D", "a", "t", "a", "/", "x", ":", "/", "y">>      \* "/Data/x:/y", slugified to data
B_bad == <<"/", "a", ":", "/", "c">>        \* "/a:/c", no '/' after the first host-path segment

BindCatalogue == {B_ab, B_ad, B_data, B_Data, B_bad}

T_ug == <<"/", "t", ":", "u", "i", "d", "=", "1", ",", "g", "i", "d", "=", "2">>          \* "/t:uid=1,gid=2"
T_u == <<"/", "u", ":", "u", "i", "d", "=", "1">>            \* "/u:uid=1"
T_g == <<"/", "w", ":", "g", "i", "d", "=", "2">>            \* "/w:gid=2"
T_n == <<"/", "x", ":", "x", "=", "1">>            \* "/x:x=1", neither uid nor gid
T_noeq == <<"/", "t", ":", "u", "i", "d">>      \* "/t:uid", a token with no '='
T_nonnum == <<"/", "t", ":", "u", "i", "d", "=", "x">>  \* "/t:uid=x", a non-numeric uid

TmpfsCatalogue == {T_ug, T_u, T_g, T_n, T_noeq, T_nonnum}

SeqsUpTo(S, n) == UNION {[1..k -> S] : k \in 0..n}

N_data == <<"d", "a", "t", "a">>
N_Data == <<"D", "a", "t", "a">>
N_a == <<"a">>
N_web == <<"w", "e", "b">>

\* line 139: mount = ['data']
DefaultMount == {N_data}

\* ignore sets handed to convert_service: the default one and two others
IgnoreSets == {DefaultMount, {N_Data}, {N_a}}

Image == "x/cowrie:latest"

MakeService(hasImage, volumes, tmpfs) ==
    LET s0 == [k \in {} |-> 0]
        s1 == IF hasImage THEN ("image" :> Image) @@ s0 ELSE s0
        s2 == IF volumes # <<>> THEN ("volumes" :> volumes) @@ s1 ELSE s1
    IN IF tmpfs # <<>> THEN ("tmpfs" :> tmpfs) @@ s2 ELSE s2

IdleRun ==
    /\ pc = "idle" /\ run = 0 /\ args = <<>> /\ tree = <<>> /\ di = 0 /\ si = 0
    /\ services = <<>> /\ files = <<>> /\ gitignore = <<>> /\ created = {}
    /\ status = 0 /\ err = "none" /\ snap = <<>>

InitParse ==
    /\ IdleRun
    /\ cvIn \in {[kind |-> "parse", raw |-> r] : r \in ParseInputs}
    /\ cvOut = [done |-> FALSE]

\* the parse of lines 45-46 applied to the drawn string
ParseCall ==
    /\ cvIn.kind = "parse" /\ ~cvOut.done
    /\ cvOut' = [done |-> TRUE, res |-> parseBindMount(cvIn.raw)]
    /\ UNCHANGED <<runVars, cvIn>>

NextParse == ParseCall

SpecParse == InitParse /\ [][NextParse]_vars

InitConvert ==
    /\ IdleRun
    /\ cvIn \in {[kind |-> "convert", name |-> N_web,
                  service |-> MakeService(img, v, t), ignore |-> ig] :
                    img \in BOOLEAN, v \in SeqsUpTo(BindCatalogue, MaxMounts),
                    t \in SeqsUpTo(TmpfsCatalogue, MaxMounts), ig \in IgnoreSets}
    /\ cvOut = [done |-> FALSE]

\* convert_service(name, service, ignore_volumes=ignore)
ConvertCall ==
    /\ cvIn.kind = "convert" /\ ~cvOut.done
    /\ cvOut' = [done |-> TRUE,
                 res |-> convert_service(cvIn.name, cvIn.service, cvIn.ignore)]
    /\ UNCHANGED <<runVars, cvIn>>

NextConvert == ConvertCall

SpecConvert == InitConvert /\ [][NextConvert]_vars


-----------------------------------------------------------------------------
(* Properties of the direct calls *)

\* the bind mounts and tmpfs mounts of the directly converted service
InVolumes == GetList(cvIn.service, "volumes")
InTmpfs == GetList(cvIn.service, "tmpfs")

Converted == cvIn.kind = "convert" /\ cvOut.done /\ cvOut.res.ok

\* the resource name of a bind mount as written, and slugified
RawName(m) == parseBindMount(m).pvc_name
SlugName(m) == slugify(RawName(m))

ExtrasNamed(n) ==
    {i \in 1..Len(cvOut.res.extras) : cvOut.res.extras[i].name = FormatClaim(n)}

VolumesNamed(n) ==
    {i \in 1..Len(cvOut.res.volumes) : cvOut.res.volumes[i].name = n}

\* the parse as the specification words it: split at the first ':', strip one
\* leading '/', split at the first '/'
FirstColonParse(raw) ==
    LET i == IndexOf(raw, ":")
        host == removeprefix(SubSeq(raw, 1, i-1), "/")
        j == IndexOf(host, "/")
    IN IF i = 0 \/ j = 0 THEN [ok |-> FALSE]
       ELSE [ok |-> TRUE, resourceName |-> SubSeq(host, 1, j-1),
             subPath |-> SubSeq(host, j+1, Len(host)),
             guestPath |-> SubSeq(raw, i+1, Len(raw))]

\* C8: the bind-mount parse succeeds exactly on the strings that have a ':'
\* and a '/' after the first host-path segment, and splits them at the first
\* ':' (any further ':' stays in guestPath) and the first '/'.
C8_ParseSplitsAtFirstColon ==
    (cvIn.kind = "parse" /\ cvOut.done) =>
        LET want == FirstColonParse(cvIn.raw) IN
        /\ cvOut.res.ok = want.ok
        /\ want.ok => /\ cvOut.res.pvc_name = want.resourceName
                      /\ cvOut.res.pvc_path = want.subPath
                      /\ cvOut.res.guest_path = want.guestPath

\* C3: a converted service holds exactly one VolumeSpec and at most one
\* ExtraResource per distinct resource name of its bind mounts.
C3_OneVolumeOneExtraPerName ==
    Converted =>
        \A k \in 1..Len(InVolumes) :
            /\ Cardinality(VolumesNamed(SlugName(InVolumes[k]))) = 1
            /\ Cardinality(ExtrasNamed(SlugName(InVolumes[k]))) <= 1

TmpfsKeys(m) == ParseAttrs(split(m, ":")[2]).keys
SomeUid == \E k \in 1..Len(InTmpfs) : UID \in TmpfsKeys(InTmpfs[k])
SomeGid == \E k \in 1..Len(InTmpfs) : GID \in TmpfsKeys(InTmpfs[k])

\* C10: the security context of a converted service merges the uid/gid of
\* all its tmpfs mounts: runAsUser is there when some mount carries uid,
\* runAsGroup and fsGroup (equal) when some mount carries gid, and there is
\* no security context when no mount carries either.
C10_SecurityContextMerged ==
    Converted =>
        LET c == cvOut.res.container
            has == "securityContext" \in DOMAIN c
        IN /\ has = (SomeUid \/ SomeGid)
           /\ SomeUid => "runAsUser" \in DOMAIN c.securityContext
           /\ SomeGid => /\ {"runAsGroup", "fsGroup"} \subseteq DOMAIN c.securityContext
                         /\ c.securityContext["runAsGroup"] = c.securityContext["fsGroup"]


-----------------------------------------------------------------------------
(* main: one run of the converter, and a second run on the same tree *)

\* line 133: the default of exclude
ExcludeDefault ==
    {"p0f", "fatt", "suricata", "elk", "ewsposter", "nginx", "spiderfoot", "deprecated"}

\* lines 130-134: args.exclude given reads parser.exclude, an attribute an
\* ArgumentParser does not have
ResolveExclude(a) ==
    IF a.exclude # <<>> THEN [ok |-> FALSE, err |-> "AttributeError"]
    ELSE [ok |-> TRUE, val |-> ExcludeDefault]

\* lines 136-140: likewise for args.mount and parser.mount
ResolveMount(a) ==
    IF a.mount # <<>> THEN [ok |-> FALSE, err |-> "AttributeError"]
    ELSE [ok |-> TRUE, val |-> DefaultMount]

\* names of the subdirectories of the search path, by position in the scan
UnitNames == <<"adbhoney", "cowrie", "dionaea", "heralding">>
ExcludedNames == <<"p0f", "fatt", "suricata", "elk">>

N_Web == <<"W", "e", "b">>
N_db == <<"d", "b">>
N_log == <<"l", "o", "g">>
PosChar == <<"a", "b">>

\* the services compose documents are made of: one with an environment and no
\* mounts, one with an ignored and a claimed bind mount and a tmpfs mount, one
\* with a malformed bind mount, one with no image
KindService(k) ==
    CASE k = "plain" -> ("environment" :> "ENV") @@ MakeService(TRUE, <<>>, <<>>)
      [] k = "mounts" -> MakeService(TRUE, <<B_data, B_ab>>, <<T_ug>>)
      [] k = "malformed" -> MakeService(TRUE, <<B_bad>>, <<>>)
      [] k = "noimage" -> MakeService(FALSE, <<B_ab>>, <<>>)

KindName(k) ==
    CASE k = "plain" -> N_Web
      [] k = "mounts" -> N_db
      [] k = "malformed" -> N_log
      [] k = "noimage" -> N_a

\* a parsed compose document: its services in declaration order, each under
\* its own key
MakeDoc(kinds) ==
    [hasServices |-> TRUE,
     services |-> [i \in 1..Len(kinds) |->
                      [name |-> KindName(kinds[i]) \o <<"_", PosChar[i]>>,
                       service |-> KindService(kinds[i])]]]

NoServicesDoc == [hasServices |-> FALSE, services |-> <<>>]

\* the compose documents of the scanned tree: no services key, one service,
\* two services in either order, a failing service before or after a good one
DocShapes ==
    {<<"plain">>, <<"mounts">>, <<"plain", "mounts">>, <<"mounts", "plain">>,
     <<"malformed", "plain">>, <<"mounts", "malformed">>, <<"noimage", "mounts">>}

Docs == {NoServicesDoc} \cup {MakeDoc(ks) : ks \in DocShapes}

EntryKinds ==
    {[t |-> "file"], [t |-> "excluded"], [t |-> "nocompose"]} \cup
    {[t |-> "unit", doc |-> d] : d \in Docs}

\* the os.DirEntry at position i of the scan
MakeEntry(i, k) ==
    CASE k.t = "file" ->
           [name |-> UnitNames[i], is_dir |-> FALSE, files |-> <<>>, doc |-> NoServicesDoc]
      [] k.t = "excluded" ->
           [name |-> ExcludedNames[i], is_dir |-> TRUE,
            files |-> <<"Dockerfile", "docker-compose.yml">>, doc |-> NoServicesDoc]
      [] k.t = "nocompose" ->
           [name |-> UnitNames[i], is_dir |-> TRUE, files |-> <<"Dockerfile">>,
            doc |-> NoServicesDoc]
      [] k.t = "unit" ->
           [name |-> UnitNames[i], is_dir |-> TRUE,
            files |-> <<"Dockerfile", "docker-compose.yml">>, doc |-> k.doc]

\* os.scandir yields the entries of the cloned tree one at a time: the first
\* run learns an entry when the scan reaches it (or that there is none left),
\* the second run reads the entries the first run read
Scanned(t, r) ==
    IF r = 1 /\ Len(t) < MaxDirs
    THEN {t} \cup {Append(t, MakeEntry(Len(t) + 1, k)) : k \in EntryKinds}
    ELSE {t}

\* line 24: re.match("docker-compose\.ya?ml", file.name)
MatchesCompose(fname) == fname \in {"docker-compose.yml", "docker-compose.yaml"}

None == "None"

\* lines 22-28: the first matching file of the directory, or None
get_compose_file(dir) ==
    IF \E i \in 1..Len(dir.files) : MatchesCompose(dir.files[i])
    THEN dir.files[CHOOSE i \in 1..Len(dir.files) :
                      /\ MatchesCompose(dir.files[i])
                      /\ \A j \in 1..(i-1) : ~MatchesCompose(dir.files[j])]
    ELSE None

\* line 168: out_fname = "_" + container_dir.name + ".tpl"
out_fname(name) == <<"_", name, ".tpl">>

Line(kind, label) == [kind |-> kind, label |-> label, data |-> <<>>]
Dump(kind, data) == [kind |-> kind, label |-> <<>>, data |-> data]

\* line 173: the source citation
CiteLine(dir, compose_file) == Line("cite", <<dir.name, compose_file>>)

\* the output unit opened in append mode: what it held is kept
OpenW_Append(fs, f) == IF f \in DOMAIN fs THEN fs ELSE (f :> <<>>) @@ fs

\* open(out_file, 'w'): the file exists and is empty
OpenW(fs, f) == (f :> <<>>) @@ fs

\* stream.write / writelines / dump on a file opened for writing or appending
WriteTo(fs, f, lines) == (f :> (fs[f] \o lines)) @@ fs

\* line 153: open(gitignore_file, 'w') and nothing written
TruncateGitignore(g) == <<>>

\* line 208: yaml.safe_dump_all(extras, stream), one document per extra
DumpAll(extras) == [i \in 1..Len(extras) |-> Dump("doc", <<extras[i]>>)]

\* the volumes block left out when the service has no volumes
EmitService_OmitEmpty(fname, service_name, r) ==
    <<Line("comment", <<service_name>>),
      Line("define", <<service_name, ".containers">>),
      Line("source", fname),
      Dump("body", <<r.container>>),
      Line("end", <<>>)>>
    \o (IF r.volumes # <<>>
        THEN <<Line("define", <<service_name, ".volumes">>), Line("source", fname),
               Dump("body", r.volumes), Line("end", <<>>)>>
        ELSE <<>>)
    \o <<Line("define", <<service_name, ".extras">>),
         Line("source", fname)>>
    \o DumpAll(r.extras)
    \o <<Line("end", <<>>)>>

\* lines 189-211: what one converted service appends to its output unit
EmitService(fname, service_name, r) ==
    <<Line("comment", <<service_name>>),
      Line("define", <<service_name, ".containers">>),
      Line("source", fname),
      Dump("body", <<r.container>>),
      Line("end", <<>>),
      Line("define", <<service_name, ".volumes">>),
      Line("source", fname)>>
    \o (IF r.volumes # <<>> THEN <<Dump("body", r.volumes)>> ELSE <<>>)
    \o <<Line("end", <<>>),
         Line("define", <<service_name, ".extras">>),
         Line("source", fname)>>
    \o DumpAll(r.extras)
    \o <<Line("end", <<>>)>>

\* what an earlier use of the destination directory left behind
StaleFiles == (out_fname("cowrie") :> <<Line("cite", <<"old">>)>>)
StaleGitignore == <<out_fname("old")>>

ArgSets ==
    {[exclude |-> x, mount |-> m] : x \in {<<>>, <<"cowrie">>}, m \in {<<>>, <<N_Data>>}}

Running == -1

Init ==
    /\ pc = "start" /\ run = 1
    /\ args \in ArgSets
    /\ tree = <<>> /\ di = 0 /\ si = 0 /\ services = <<>>
    /\ files = StaleFiles /\ gitignore = StaleGitignore
    /\ created = {}
    /\ status = Running /\ err = "none"
    /\ snap = [files |-> <<>>, gitignore |-> <<>>]
    /\ cvIn = [kind |-> "none"] /\ cvOut = [done |-> FALSE]

\* an uncaught exception: the traceback is printed and the process exits 1
Crash(e) == pc' = "crashed" /\ status' = 1 /\ err' = e

\* lines 125-153: the options, then the ignore-list file is truncated
Start ==
    /\ pc = "start"
    /\ IF ~ResolveExclude(args).ok
       THEN Crash(ResolveExclude(args).err) /\ UNCHANGED gitignore
       ELSE IF ~ResolveMount(args).ok
       THEN Crash(ResolveMount(args).err) /\ UNCHANGED gitignore
       ELSE /\ gitignore' = TruncateGitignore(gitignore)
            /\ pc' = "clone"
            /\ UNCHANGED <<status, err>>
    /\ UNCHANGED <<run, args, tree, di, si, services, files, created, snap, cvIn, cvOut>>

\* lines 155-159: the clone and the search directory
Clone ==
    /\ pc = "clone"
    /\ pc' = "scan" /\ di' = 1
    /\ UNCHANGED <<run, args, tree, si, services, files, gitignore, created, status,
                   err, snap, cvIn, cvOut>>

\* lines 161-169: the next entry of the scan, skipped or taken; a finished
\* scan ends the run with exit status 0
ScanNext ==
    /\ pc = "scan"
    /\ \E t \in (IF di > Len(tree) THEN Scanned(tree, run) ELSE {tree}) :
          /\ tree' = t
          /\ IF di > Len(t)
             THEN pc' = "done" /\ status' = 0 /\ UNCHANGED <<di, si>>
             ELSE IF ~t[di].is_dir \/ t[di].name \in ResolveExclude(args).val
             THEN di' = di + 1 /\ UNCHANGED <<pc, status, si>>
             ELSE pc' = "cite" /\ si' = 0 /\ UNCHANGED <<di, status>>
    /\ UNCHANGED <<run, args, services, files, gitignore, created, err, snap,
                   cvIn, cvOut>>

\* lines 172-173: the output unit is opened for writing, then the citation
\* is built from compose_file; os.path.relpath(None, ...) is a TypeError
WriteCitation ==
    /\ pc = "cite"
    /\ LET dir == tree[di]
           compose_file == get_compose_file(dir)
           f == out_fname(dir.name)
       IN /\ created' = created \cup {f}
          /\ IF compose_file = None
             THEN files' = OpenW(files, f) /\ Crash("TypeError")
             ELSE /\ files' = WriteTo(OpenW(files, f), f, <<CiteLine(dir, compose_file)>>)
                  /\ pc' = "ignore"
                  /\ UNCHANGED <<status, err>>
    /\ UNCHANGED <<run, args, tree, di, si, services, gitignore, snap, cvIn, cvOut>>

\* lines 176-177: the output unit's name is appended to the ignore-list file
AppendGitignore ==
    /\ pc = "ignore"
    /\ gitignore' = Append(gitignore, out_fname(tree[di].name))
    /\ pc' = "load"
    /\ UNCHANGED <<run, args, tree, di, si, services, files, created, status, err,
                   snap, cvIn, cvOut>>

\* lines 180-183: services = contents.get('services', {})
LoadCompose ==
    /\ pc = "load"
    /\ services' = IF tree[di].doc.hasServices THEN tree[di].doc.services ELSE <<>>
    /\ si' = 1
    /\ pc' = "svc"
    /\ UNCHANGED <<run, args, tree, di, files, gitignore, created, status, err, snap,
                   cvIn, cvOut>>

\* lines 185-211: the next service is converted and its three blocks appended;
\* after the last one the scan goes on
ConvertService ==
    /\ pc = "svc"
    /\ IF si > Len(services)
       THEN /\ pc' = "scan" /\ di' = di + 1
            /\ UNCHANGED <<si, files, status, err>>
       ELSE LET service_name == slugify(services[si].name)
                r == convert_service(service_name, services[si].service,
                                     ResolveMount(args).val)
                f == out_fname(tree[di].name)
            IN IF ~r.ok
               THEN Crash(r.err) /\ UNCHANGED <<di, si, files>>
               ELSE /\ files' = WriteTo(files, f, EmitService(f, service_name, r))
                    /\ si' = si + 1
                    /\ UNCHANGED <<pc, di, status, err>>
    /\ UNCHANGED <<run, args, tree, services, gitignore, created, snap, cvIn, cvOut>>

RunEnded == pc \in {"done", "crashed"}

\* the converter is run again with the same options, source tree and destination
Rerun ==
    /\ run = 1 /\ RunEnded
    /\ snap' = [files |-> files, gitignore |-> gitignore]
    /\ run' = 2 /\ pc' = "start"
    /\ di' = 0 /\ si' = 0 /\ services' = <<>> /\ created' = {}
    /\ status' = Running /\ err' = "none"
    /\ UNCHANGED <<args, tree, files, gitignore, cvIn, cvOut>>

Next ==
    \/ Start
    \/ Clone
    \/ ScanNext
    \/ WriteCitation
    \/ AppendGitignore
    \/ LoadCompose
    \/ ConvertService
    \/ Rerun

Spec == Init /\ [][Next]_vars


-----------------------------------------------------------------------------
(* Properties of a run *)

Range(q) == {q[i] : i \in 1..Len(q)}

\* the exclusion set the options ask for: the given one, else the default
ClaimedExclude == IF args.exclude # <<>> THEN Range(args.exclude) ELSE ExcludeDefault

OptionsResolved == ResolveExclude(args).ok /\ ResolveMount(args).ok

\* entry i is a subdirectory the run is to convert
IsUnit(i) == tree[i].is_dir /\ tree[i].name \notin ClaimedExclude

HasCompose(i) == get_compose_file(tree[i]) # None

DocServices(i) == IF tree[i].doc.hasServices THEN tree[i].doc.services ELSE <<>>

OutFile(i) == out_fname(tree[i].name)

\* the conversion of service j of entry i under the default ignore set
Conv(i, j) ==
    convert_service(slugify(DocServices(i)[j].name), DocServices(i)[j].service,
                    DefaultMount)

\* the containers block of service j of entry i is in its output unit
Emitted(i, j) ==
    /\ OutFile(i) \in DOMAIN files
    /\ \E p \in 1..Len(files[OutFile(i)]) :
          /\ files[OutFile(i)][p].kind = "define"
          /\ files[OutFile(i)][p].label =
                <<slugify(DocServices(i)[j].name), ".containers">>

\* C1: when the conversion of a service fails, only that service is skipped:
\* the run ends with exit status 0 and every service that converts, in every
\* subdirectory of the tree, is in its output unit.
C1_OnlyFailedServiceSkipped ==
    (/\ RunEnded /\ OptionsResolved
     /\ \A i \in 1..Len(tree) : IsUnit(i) => HasCompose(i)) =>
        /\ status = 0
        /\ \A i \in 1..Len(tree) : IsUnit(i) =>
              \A j \in 1..Len(DocServices(i)) : Conv(i, j).ok => Emitted(i, j)

\* C2: a scanned subdirectory with no compose file is skipped: it gets no
\* output unit and no ignore-list entry, and the run goes on past it.
C2_NoComposeDirSkipped ==
    \A i \in 1..Len(tree) :
        (i <= di /\ OptionsResolved /\ IsUnit(i) /\ ~HasCompose(i)) =>
            /\ OutFile(i) \notin created
            /\ OutFile(i) \notin Range(gitignore)
            /\ ~(pc = "crashed" /\ di = i)

IsDefine(l) == l.kind = "define"
IsBracket(l) == l.kind \in {"define", "end"}

\* services of entry i whose blocks the current run has written
Written(i) ==
    IF i < di THEN Len(DocServices(i))
    ELSE IF pc \in {"svc", "crashed"} /\ si >= 1 THEN si - 1 ELSE 0

BlockSuffix == <<".containers", ".volumes", ".extras">>

\* the labels of the define lines of the first n services of entry i
WantDefines(i, n) ==
    [k \in 1..(3 * n) |->
        <<slugify(DocServices(i)[((k - 1) \div 3) + 1].name),
          BlockSuffix[((k - 1) % 3) + 1]>>]

\* the line after the source marker of the block labelled lbl closes it
EmptyBlock(L, lbl) ==
    \E p \in 1..(Len(L) - 2) :
        /\ L[p].kind = "define" /\ L[p].label = lbl
        /\ L[p + 1].kind = "source"
        /\ L[p + 2].kind = "end"

\* C5: every service written to an output unit has exactly three define/end
\* pairs, containers, volumes, extras in that order, each closed before the
\* next opens; a service with no volumes (no extras) still has its volumes
\* (extras) pair, with only the source marker between define and end.
C5_ThreeBlocksPerService ==
    \A i \in 1..Len(tree) :
        (OutFile(i) \in created /\ files[OutFile(i)] # <<>>) =>
            LET L == files[OutFile(i)]
                defs == SelectSeq(L, IsDefine)
                br == SelectSeq(L, IsBracket)
            IN /\ L[1].kind = "cite"
               /\ [k \in 1..Len(defs) |-> defs[k].label] = WantDefines(i, Written(i))
               /\ Len(br) = 2 * Len(defs)
               /\ \A k \in 1..Len(br) :
                     br[k].kind = IF k % 2 = 1 THEN "define" ELSE "end"
               /\ \A j \in 1..Written(i) :
                     LET nm == slugify(DocServices(i)[j].name) IN
                     /\ Conv(i, j).volumes = <<>> => EmptyBlock(L, <<nm, ".volumes">>)
                     /\ Conv(i, j).extras = <<>> => EmptyBlock(L, <<nm, ".extras">>)

\* a finished run wrote a unit with two services, one of them with an empty
\* volumes block
C5_Witness ==
    /\ pc = "done"
    /\ \E i \in 1..Len(tree) :
          /\ OutFile(i) \in created
          /\ Written(i) = 2
          /\ \E j \in 1..2 :
                /\ Conv(i, j).volumes = <<>>
                /\ EmptyBlock(files[OutFile(i)],
                              <<slugify(DocServices(i)[j].name), ".volumes">>)

\* C6: once a run (with default options) has emptied the ignore-list file,
\* the names it lists are exactly the output units the run has created so
\* far, none listed twice, between two units and at its end however it ends.
C6_IgnoreListMatchesUnits ==
    (OptionsResolved /\ pc \notin {"start", "ignore"}) =>
        /\ Range(gitignore) = created
        /\ Len(gitignore) = Cardinality(created)

\* C7: a subdirectory named in the exclusion set (the given one, else the
\* default) gets no output unit and no ignore-list entry, and a run given an
\* exclusion set gets as far as scanning.
C7_ExclusionSetHonoured ==
    /\ \A i \in 1..Len(tree) :
          tree[i].name \in ClaimedExclude =>
              OutFile(i) \notin created /\ OutFile(i) \notin Range(gitignore)
    /\ (args.exclude # <<>> /\ RunEnded) => di >= 1

\* C9: a second run on the same tree, options and destination leaves every
\* output unit and the ignore-list file as the first run left them.
C9_SecondRunSameOutput ==
    (run = 2 /\ RunEnded) =>
        /\ files = snap.files
        /\ gitignore = snap.gitignore

\* the second run finished after writing two units, one with service blocks
C9_Witness ==
    /\ run = 2 /\ pc = "done"
    /\ Len(gitignore) >= 2
    /\ \E f \in created : Len(files[f]) > 1

=============================================================================
